---- MODULE Spec2Model ----
(***************************************************************************)
(* State-machine model of the crypto portfolio tracker's orchestration     *)
(* layer: the redux slices (auth, crypto, portfolio), the redux-saga       *)
(* workers that drive them, the AsyncStorage key/value store and the UI    *)
(* handlers that dispatch into them.                                       *)
(*                                                                         *)
(* Dispatching an action runs its reducer first and then, synchronously,   *)
(* every saga taking it up to the saga's first asynchronous effect.  A     *)
(* takeLatest watcher cancels its previous worker when a new action        *)
(* arrives; a native AsyncStorage call already issued by the cancelled     *)
(* worker still executes, only its result is dropped.  Calls on one key    *)
(* are served in FIFO order.                                               *)
(***************************************************************************)
EXTENDS Integers, Sequences, FiniteSets, TLC

\* ------------------------------------------------------------------ bounds
MaxTime == 2
MaxQueue == 2
MaxPortQueue == 3
MaxPrice == 2
MaxQty == 2
MaxOps == 2

\* --------------------------------------------------------- value universe
\* JavaScript null (auth.token, auth.error, a missing AsyncStorage key).
Null == 0
\* Date.now() readings; the token `dummy_token_${t}` is modelled by t >= 1,
\* so every issued token is a non-empty string different from null.
Times == 1..MaxTime
\* Strings a user can type into the login form.
Strings == {"", "admin", "Admin", "admin123", "admin "}
\* Error messages.
NoError == "null"
ErrInvalid == "Invalid username or password"
ErrStorage == "AsyncStorage rejected"
ErrFetch == "Failed to fetch crypto data"
ErrSave == "Failed to save portfolio to AsyncStorage"
ErrItemNotFound == "Portfolio item not found"
ErrCoinNotFound == "Coin not found in crypto data"
ErrTypeError == "TypeError: cannot read property of undefined"

\* JavaScript numbers: the integers below Infinity stand for themselves;
\* Infinity, NaN and the JSON null a non-finite number is serialized to are
\* three values apart from them.
Infinity == 1000
NaN == 1001
JsonNull == 1002

\* Coins of the market-data endpoint and the prices it reports.
CoinIds == {"btc", "eth"}
Prices == 1..MaxPrice
Coin(id, price) == [id |-> id, current_price |-> price]
\* Responses of the endpoint: both coins with any price for btc, or a list
\* btc has dropped out of.
Responses ==
  {<<Coin("btc", p), Coin("eth", 1)>> : p \in Prices} \cup {<<Coin("eth", 1)>>}
\* Texts a user can type into a quantity field.
QtyTexts == {"", "0", "-1", "1", "2", "abc", "1e999"}

VARIABLES
  auth,        \* redux state.auth
  authStore,   \* AsyncStorage value under "authToken" (Null when absent)
  authQ,       \* AsyncStorage calls on "authToken" issued and not yet served
  loginTask,   \* the worker forked by watchLogin
  crypto,      \* redux state.crypto
  portfolio,   \* redux state.portfolio
  portStore,   \* AsyncStorage value under "portfolio"
  portQ,       \* AsyncStorage calls on "portfolio" issued and not yet served
  fetchTask,   \* the HTTP requests in flight, each with the state of the worker awaiting it
  polling,     \* the running refreshPollingSaga loops: TRUE once a loop's delay has ended
  addTask,     \* the worker forked by watchAddToPortfolio
  updateTask,  \* the worker forked by watchUpdatePortfolioItem
  ops,         \* user events taken so far in the portfolio subsystem
  ev           \* the last step taken (history, read by the properties only)

authVars == <<auth, authStore, authQ, loginTask>>
portVars == <<crypto, portfolio, portStore, portQ, fetchTask, polling, addTask, updateTask, ops>>

\* ------------------------------------------------------------- auth slice
authInitialState ==
  [isAuthenticated |-> FALSE, token |-> Null, loading |-> FALSE, error |-> NoError]

loginRequest(state) ==
  [state EXCEPT !.loading = TRUE, !.error = NoError]

loginSuccess(state, payload) ==
  [state EXCEPT !.loading = FALSE, !.isAuthenticated = TRUE,
                !.token = payload, !.error = NoError]

loginFailure(state, payload) ==
  [state EXCEPT !.loading = FALSE, !.isAuthenticated = FALSE,
                !.token = Null, !.error = payload]

\* A logout that forgets to clear the token.
logout_keepsToken(state) ==
  [state EXCEPT !.isAuthenticated = FALSE, !.error = NoError, !.loading = FALSE]

logout(state) ==
  [state EXCEPT !.isAuthenticated = FALSE, !.token = Null,
                !.error = NoError, !.loading = FALSE]

\* A restore that does not test the payload.
setAuthFromStorage_unchecked(state, payload) ==
  [state EXCEPT !.isAuthenticated = TRUE, !.token = payload]

\* `if (action.payload)`: null and the empty string are falsy.
setAuthFromStorage(state, payload) ==
  IF payload # Null
    THEN [state EXCEPT !.isAuthenticated = TRUE, !.token = payload]
    ELSE [state EXCEPT !.isAuthenticated = FALSE, !.token = Null]

\* -------------------------------------------------------------- auth saga
HARDCODED_CREDENTIALS == [username |-> "admin", password |-> "admin123"]

\* A credential test that forgets the password.
authenticateUser_usernameOnly(username, password) ==
  username = HARDCODED_CREDENTIALS.username

\* The credential test of authenticateUser: TRUE returns a token, FALSE throws.
authenticateUser(username, password) ==
  /\ username = HARDCODED_CREDENTIALS.username
  /\ password = HARDCODED_CREDENTIALS.password

idleLogin ==
  [pc |-> "idle", username |-> "", password |-> "", token |-> Null, calls |-> <<>>]

\* One AsyncStorage call: kind is "set", "get" or "remove"; owner is the worker
\* awaiting it; live is FALSE once takeLatest has cancelled that worker.
StorageCall(kind, val, owner) ==
  [kind |-> kind, val |-> val, owner |-> owner, live |-> TRUE]

\* takeLatest: cancelling a worker drops the results of its pending calls.
Cancel(q, owner) ==
  [i \in 1..Len(q) |-> IF q[i].owner = owner THEN [q[i] EXCEPT !.live = FALSE] ELSE q[i]]

\* AppContent's mount effect dispatches auth/checkAuth: checkAuthSaga issues
\* AsyncStorage.getItem('authToken').
checkAuthCall == StorageCall("get", Null, "checkAuth")

\* Login.handleSubmit: dispatches loginRequest when both fields are non-empty;
\* watchLogin cancels the previous worker and forks loginSaga, which waits
\* for authenticateUser's 500 ms promise.
handleSubmit(username, password) ==
  /\ username # "" /\ password # ""
  /\ auth' = loginRequest(auth)
  /\ authQ' = Cancel(authQ, "login")
  /\ loginTask' = [pc |-> "delay", username |-> username, password |-> password,
                   token |-> Null, calls |-> <<>>]
  /\ ev' = [op |-> "loginRequest", username |-> username, password |-> password]
  /\ UNCHANGED authStore
  /\ UNCHANGED portVars

\* loginSaga after the simulated delay: authenticateUser returns a token and
\* the saga calls AsyncStorage.setItem, or it throws and the saga's catch
\* dispatches loginFailure.
loginSagaAuthenticated ==
  /\ loginTask.pc = "delay"
  /\ IF authenticateUser(loginTask.username, loginTask.password)
       THEN /\ Len(authQ) < MaxQueue
            /\ \E t \in Times :
                 /\ authQ' = Append(authQ, StorageCall("set", t, "login"))
                 /\ loginTask' = [loginTask EXCEPT !.pc = "write", !.token = t,
                                    !.calls = Append(@, [kind |-> "set", key |-> "authToken", val |-> t])]
            /\ ev' = [op |-> "authenticated", task |-> loginTask]
            /\ UNCHANGED <<auth, authStore>>
       ELSE /\ auth' = loginFailure(auth, ErrInvalid)
            /\ loginTask' = idleLogin
            /\ ev' = [op |-> "loginFailure", task |-> loginTask]
            /\ UNCHANGED <<authStore, authQ>>
  /\ UNCHANGED portVars

\* Dashboard/Portfolio handleLogout: the logout reducer runs, then watchLogout
\* cancels the previous logoutSaga and forks a new one, which calls
\* AsyncStorage.removeItem('authToken').
handleLogout ==
  /\ Len(authQ) < MaxQueue
  /\ auth' = logout(auth)
  /\ authQ' = Append(Cancel(authQ, "logout"), StorageCall("remove", Null, "logout"))
  /\ ev' = [op |-> "logout"]
  /\ UNCHANGED <<authStore, loginTask>>
  /\ UNCHANGED portVars

\* What the redux state becomes when the call at the head of the queue settles.
\* ok = TRUE: the promise resolves; ok = FALSE: it rejects.
authAfterCall(c, ok) ==
  IF ~c.live THEN auth
  ELSE IF c.owner = "login"
    THEN IF ok THEN loginSuccess(auth, loginTask.token)
               ELSE loginFailure(auth, ErrStorage)
  ELSE IF c.owner = "checkAuth"
    THEN IF ok THEN setAuthFromStorage(auth, authStore)
               ELSE setAuthFromStorage(auth, Null)
  ELSE auth

\* What AsyncStorage holds under "authToken" once the call has been served.
storeAfterCall(c, ok) ==
  IF ~ok THEN authStore
  ELSE IF c.kind = "set" THEN c.val
  ELSE IF c.kind = "remove" THEN Null
  ELSE authStore

authEvent(c, ok) ==
  [op |-> IF ~c.live THEN "dropped"
          ELSE IF c.owner = "login" THEN (IF ok THEN "loginSuccess" ELSE "loginFailure")
          ELSE IF c.owner = "checkAuth" THEN "setAuthFromStorage"
          ELSE "logoutDone",
   call |-> c, ok |-> ok, task |-> loginTask]

authSettle(ok) ==
  LET c == Head(authQ) IN
    /\ auth' = authAfterCall(c, ok)
    /\ authStore' = storeAfterCall(c, ok)
    /\ authQ' = Tail(authQ)
    /\ loginTask' = IF c.live /\ c.owner = "login" THEN idleLogin ELSE loginTask
    /\ ev' = authEvent(c, ok)
    /\ UNCHANGED portVars

\* AsyncStorage serves the oldest pending call on "authToken".
AuthStorageResolve ==
  /\ authQ # <<>>
  /\ authSettle(TRUE)

\* AsyncStorage rejects the oldest pending call on "authToken".
AuthStorageReject ==
  /\ authQ # <<>>
  /\ authSettle(FALSE)

\* The app is killed and started again: redux state and sagas start afresh,
\* AsyncStorage keeps its content, AppContent's mount effect runs.
authRestarted ==
  /\ auth' = authInitialState
  /\ loginTask' = idleLogin
  /\ authQ' = <<checkAuthCall>>
  /\ UNCHANGED authStore

AuthRestart ==
  /\ authRestarted
  /\ ev' = [op |-> "restart"]
  /\ UNCHANGED portVars

AuthInit ==
  /\ auth = authInitialState
  /\ authStore = Null
  /\ authQ = <<checkAuthCall>>
  /\ loginTask = idleLogin

AuthNext ==
  \/ \E username \in Strings, password \in Strings : handleSubmit(username, password)
  \/ loginSagaAuthenticated
  \/ handleLogout
  \/ AuthStorageResolve
  \/ AuthStorageReject
  \/ AuthRestart

\* ------------------------------------------------------ JavaScript values
\* Number(x): null converts to 0.
ToNumber(x) == IF x = JsonNull THEN 0 ELSE x

\* x * y on JavaScript numbers (no operand of the model is negative when the
\* other is Infinity).
JsMul(a, b) ==
  LET x == ToNumber(a)
      y == ToNumber(b)
  IN IF x = NaN \/ y = NaN THEN NaN
     ELSE IF x = Infinity \/ y = Infinity
       THEN (IF x = 0 \/ y = 0 THEN NaN ELSE Infinity)
     ELSE x * y

\* x + y on JavaScript numbers.
JsAdd(a, b) ==
  LET x == ToNumber(a)
      y == ToNumber(b)
  IN IF x = NaN \/ y = NaN THEN NaN
     ELSE IF x = Infinity \/ y = Infinity THEN Infinity
     ELSE x + y

\* x > 0 on JavaScript numbers: false for NaN.
JsPositive_orZero(a) ==
  LET x == ToNumber(a) IN x # NaN /\ (x = Infinity \/ x >= 0)

JsPositive(a) ==
  LET x == ToNumber(a) IN x # NaN /\ (x = Infinity \/ x > 0)

\* parseFloat on the texts of the model; a digit string too long for a double
\* parses to Infinity, as "1e999" does.
parseFloat(text) ==
  CASE text = "0" -> 0
    [] text = "-1" -> -1
    [] text = "1" -> 1
    [] text = "2" -> 2
    [] text = "1e999" -> Infinity
    [] OTHER -> NaN

\* JSON.stringify of a number: NaN and Infinity become null.
JsonNumber(x) == IF x = Infinity \/ x = NaN THEN JsonNull ELSE x

\* JSON.stringify of a PortfolioItem[]; the text is modelled by the value
\* JSON.parse gives back for it.
JSONstringify(list) ==
  [i \in 1..Len(list) |->
     [coinId |-> list[i].coinId,
      quantity |-> JsonNumber(list[i].quantity),
      currentPrice |-> JsonNumber(list[i].currentPrice),
      value |-> JsonNumber(list[i].value)]]

JSONparse(text) == text

\* A stored text that JSON.parse throws a SyntaxError on (texts being
\* modelled by the lists they parse to, this one stands for any text that is
\* not JSON).
Unparsable == <<[coinId |-> "{", quantity |-> 0, currentPrice |-> 0, value |-> 0]>>

\* A value that is an array or undefined.
Arr(list) == [undef |-> FALSE, list |-> list]
Undefined == [undef |-> TRUE, list |-> <<>>]

\* Array.prototype.findIndex on coinId, counted from 1; 0 when there is none.
findIndex(list, coinId) ==
  IF \E i \in 1..Len(list) : list[i].coinId = coinId
    THEN CHOOSE i \in 1..Len(list) :
           /\ list[i].coinId = coinId
           /\ \A j \in 1..(i - 1) : list[j].coinId # coinId
    ELSE 0

\* Array.prototype.filter(item => item.coinId !== coinId).
RECURSIVE filterOut(_, _)
filterOut(list, coinId) ==
  IF list = <<>> THEN <<>>
  ELSE IF Head(list).coinId = coinId THEN filterOut(Tail(list), coinId)
  ELSE <<Head(list)>> \o filterOut(Tail(list), coinId)

\* Portfolio page: items.reduce((sum, item) => sum + item.value, 0).
RECURSIVE totalValue(_)
totalValue(list) ==
  IF list = <<>> THEN 0
  ELSE JsAdd(totalValue(SubSeq(list, 1, Len(list) - 1)), list[Len(list)].value)

\* ----------------------------------------------------------- crypto slice
cryptoInitialState ==
  [coins |-> <<>>, loading |-> FALSE, error |-> NoError, lastUpdated |-> Null]

fetchCryptoDataRequest(state) ==
  [state EXCEPT !.loading = TRUE, !.error = NoError]

fetchCryptoDataSuccess(state, payload, now) ==
  [state EXCEPT !.loading = FALSE, !.coins = payload,
                !.lastUpdated = now, !.error = NoError]

\* A failure reducer that blanks the coin list.
fetchCryptoDataFailure_blanks(state, payload) ==
  [state EXCEPT !.loading = FALSE, !.error = payload, !.coins = <<>>]

fetchCryptoDataFailure(state, payload) ==
  [state EXCEPT !.loading = FALSE, !.error = payload]

\* -------------------------------------------------------- portfolio slice
portfolioInitialState ==
  [items |-> Arr(<<>>), loading |-> FALSE, error |-> NoError]

addToPortfolioRequest(state) ==
  [state EXCEPT !.loading = TRUE, !.error = NoError]

\* An add reducer that pushes without looking for the coin.
addToPortfolioSuccess_alwaysPush(state, payload) ==
  [state EXCEPT !.loading = FALSE, !.error = NoError,
                !.items = Arr(Append(state.items.list, payload))]

addToPortfolioSuccess(state, payload) ==
  LET list == state.items.list
      existingIndex == findIndex(list, payload.coinId)
  IN [state EXCEPT
        !.loading = FALSE,
        !.items = Arr(IF existingIndex > 0
                        THEN [list EXCEPT ![existingIndex] = payload]
                        ELSE Append(list, payload)),
        !.error = NoError]

updatePortfolioItemRequest(state) ==
  [state EXCEPT !.loading = TRUE, !.error = NoError]

updatePortfolioItemSuccess(state, payload) ==
  LET list == state.items.list
      index == findIndex(list, payload.coinId)
  IN [state EXCEPT
        !.loading = FALSE,
        !.items = Arr(IF index > 0 THEN [list EXCEPT ![index] = payload] ELSE list),
        !.error = NoError]

\* A remove reducer that removes nothing.
removeFromPortfolio_keepsAll(state, coinId) == state

removeFromPortfolio(state, coinId) ==
  [state EXCEPT !.items = Arr(filterOut(state.items.list, coinId))]

\* A price update that forgets to recompute the value.
updatePortfolioPrices_staleValue(state, priceMap) ==
  [state EXCEPT !.items = Arr(
     [i \in 1..Len(state.items.list) |->
        LET item == state.items.list[i] IN
          IF item.coinId \in DOMAIN priceMap
            THEN [item EXCEPT !.currentPrice = priceMap[item.coinId]]
            ELSE item])]

updatePortfolioPrices(state, priceMap) ==
  [state EXCEPT !.items = Arr(
     [i \in 1..Len(state.items.list) |->
        LET item == state.items.list[i] IN
          IF item.coinId \in DOMAIN priceMap
            THEN [item EXCEPT !.currentPrice = priceMap[item.coinId],
                              !.value = JsMul(item.quantity, priceMap[item.coinId])]
            ELSE item])]

portfolioFailure(state, payload) ==
  [state EXCEPT !.loading = FALSE, !.error = payload]

\* A load reducer that reports an error as well.
loadPortfolioFromStorage_setsError(state, payload) ==
  [state EXCEPT !.items = payload, !.error = ErrSave]

loadPortfolioFromStorage(state, payload) ==
  [state EXCEPT !.items = payload]

\* ------------------------------------------------------------ crypto saga
\* Date.now() when a response is reduced: a reading never earlier than an
\* earlier one, the user's events so far serving as the clock.
DateNow == ops

\* The priceMap fetchCryptoDataSaga builds: coin id -> current_price (a later
\* coin with the same id overwrites an earlier one).
priceMapOf(coins) ==
  [id \in {coins[i].id : i \in 1..Len(coins)} |->
     LET last == CHOOSE i \in 1..Len(coins) :
                   /\ coins[i].id = id
                   /\ \A j \in (i + 1)..Len(coins) : coins[j].id # id
     IN coins[last].current_price]

\* An HTTP request in flight: latest when no refresh request was dispatched
\* after its own, live while the worker awaiting its response is not
\* cancelled.  Requests that agree on both are kept as one.
HttpRequest(latest, live) == [latest |-> latest, live |-> live]

\* A watcher that forks a worker for every request and cancels none.
watchFetchCryptoData_takeEvery(tasks) ==
  {HttpRequest(FALSE, t.live) : t \in tasks} \cup {HttpRequest(TRUE, TRUE)}

\* watchFetchCryptoData takes fetchCryptoDataRequest with takeLatest: the
\* running worker is cancelled, its request stays in flight, and a new
\* fetchCryptoDataSaga is forked, which awaits its own response.
watchFetchCryptoData(tasks) ==
  {HttpRequest(FALSE, FALSE) : t \in tasks} \cup {HttpRequest(TRUE, TRUE)}

\* dispatch(fetchCryptoDataRequest()): the reducer runs, then the watcher.
dispatchFetchRequest ==
  /\ crypto' = fetchCryptoDataRequest(crypto)
  /\ fetchTask' = watchFetchCryptoData(fetchTask)
  /\ UNCHANGED <<portfolio, portStore, portQ, addTask, updateTask>>
  /\ UNCHANGED authVars

\* The step a refresh request leaves in ev: who dispatched it, the error its
\* reducer cleared and the polling loops that were running.
fetchRequested(by) ==
  [op |-> "fetchRequest", by |-> by, cleared |-> crypto.error, loops |-> Len(polling)]

\* watchStartRefreshPolling takes startRefreshPolling with takeLatest: the
\* running loop, if any, is cancelled and one new loop starts its delay.
watchStartRefreshPolling_takeEvery(loops) == Append(loops, FALSE)
watchStartRefreshPolling(loops) == <<FALSE>>

\* Dashboard's mount effect: one refresh request, then startRefreshPolling.
DashboardMount ==
  /\ ops < MaxOps
  /\ ops' = ops + 1
  /\ dispatchFetchRequest
  /\ polling' = watchStartRefreshPolling(polling)
  /\ ev' = fetchRequested("mount")

\* Dashboard's RefreshControl.onRefresh.
onRefresh ==
  /\ ops < MaxOps
  /\ ops' = ops + 1
  /\ dispatchFetchRequest
  /\ UNCHANGED polling
  /\ ev' = fetchRequested("manual")

\* The stopRefreshPolling reducer: its body is empty.
stopRefreshPolling(state) == state

\* dispatch(stopRefreshPolling()): the reducer runs; no watcher takes the
\* action, so no saga is started or cancelled.
dispatchStopRefreshPolling ==
  /\ ops < MaxOps
  /\ ops' = ops + 1
  /\ crypto' = stopRefreshPolling(crypto)
  /\ ev' = [op |-> "stopPolling", loops |-> Len(polling)]
  /\ UNCHANGED <<portfolio, portStore, portQ, fetchTask, polling, addTask, updateTask>>
  /\ UNCHANGED authVars

\* refreshPollingSaga's delay(60000): sixty seconds pass, the delay of every
\* waiting loop ends.
delay60000 ==
  /\ \E i \in 1..Len(polling) : ~polling[i]
  /\ polling' = [i \in 1..Len(polling) |-> TRUE]
  /\ ev' = [op |-> "delay"]
  /\ UNCHANGED <<crypto, portfolio, portStore, portQ, fetchTask, addTask, updateTask, ops>>
  /\ UNCHANGED authVars

\* refreshPollingSaga after its delay: the loop puts a refresh request and
\* starts the next delay.  A failure of the fetch is caught inside
\* fetchCryptoDataSaga, a worker of its own, and never reaches the loop.
refreshPollingSaga ==
  /\ \E i \in 1..Len(polling) :
       /\ polling[i]
       /\ polling' = [polling EXCEPT ![i] = FALSE]
  /\ dispatchFetchRequest
  /\ ev' = fetchRequested("polling")
  /\ UNCHANGED ops

\* fetchCryptoDataSaga with a 2xx response: fetchCryptoDataSuccess, then the
\* portfolio prices are updated when the portfolio is not empty.  Reading
\* .length of an undefined items throws into the saga's catch.
fetchCryptoDataSagaResolved ==
  \E t \in fetchTask :
  /\ t.live
  /\ \E coins \in Responses :
       LET fetched == fetchCryptoDataSuccess(crypto, coins, DateNow) IN
         IF portfolio.items.undef
           THEN /\ crypto' = fetchCryptoDataFailure(fetched, ErrTypeError)
                /\ portfolio' = portfolio
                /\ ev' = [op |-> "fetchThrew", coins |-> coins, request |-> t]
           ELSE /\ crypto' = fetched
                /\ portfolio' = IF Len(portfolio.items.list) > 0
                                  THEN updatePortfolioPrices(portfolio, priceMapOf(coins))
                                  ELSE portfolio
                /\ ev' = [op |-> "fetchSuccess", coins |-> coins, request |-> t]
  /\ fetchTask' = fetchTask \ {t}
  /\ UNCHANGED <<portStore, portQ, polling, addTask, updateTask, ops>>
  /\ UNCHANGED authVars

\* fetchCryptoDataSaga with a non-2xx response or a transport failure.
fetchCryptoDataSagaRejected_stopsPolling ==
  \E t \in fetchTask :
  /\ t.live
  /\ crypto' = fetchCryptoDataFailure(crypto, ErrFetch)
  /\ fetchTask' = fetchTask \ {t}
  /\ polling' = <<>>
  /\ ev' = [op |-> "fetchFailure", request |-> t]
  /\ UNCHANGED <<portfolio, portStore, portQ, addTask, updateTask, ops>>
  /\ UNCHANGED authVars

fetchCryptoDataSagaRejected ==
  \E t \in fetchTask :
  /\ t.live
  /\ crypto' = fetchCryptoDataFailure(crypto, ErrFetch)
  /\ fetchTask' = fetchTask \ {t}
  /\ ev' = [op |-> "fetchFailure", request |-> t]
  /\ UNCHANGED <<portfolio, portStore, portQ, polling, addTask, updateTask, ops>>
  /\ UNCHANGED authVars

\* The response to a request whose worker was cancelled arrives, with
\* whatever outcome: the cancelled fetchCryptoDataSaga never resumes, so
\* nothing is put.  Other requests of cancelled workers may remain in flight.
fetchCryptoDataSagaCancelled ==
  \E t \in fetchTask :
  /\ ~t.live
  /\ fetchTask' \in {fetchTask, fetchTask \ {t}}
  /\ ev' = [op |-> "fetchStale", request |-> t]
  /\ UNCHANGED <<crypto, portfolio, portStore, portQ, polling, addTask, updateTask, ops>>
  /\ UNCHANGED authVars

\* --------------------------------------------------------- portfolio saga
\* A worker of watchAddToPortfolio or watchUpdatePortfolioItem: the item it
\* will put once its store write is served; for an update also the amount
\* typed (delta) and the quantity it was added to (before).
idleTask == [pc |-> "idle", item |-> [coinId |-> ""], delta |-> 0, before |-> 0]

\* The PortfolioItem addToPortfolioSaga builds.
newPortfolioItem(coin, quantity) ==
  [coinId |-> coin.id, quantity |-> quantity, currentPrice |-> coin.current_price,
   value |-> JsMul(coin.current_price, quantity)]

\* The list addToPortfolioSaga and updatePortfolioItemSaga save: the item
\* replaces the one at index, or is appended when index is 0.
withItem(currentItems, index, item) ==
  IF index > 0 THEN [currentItems EXCEPT ![index] = item]
  ELSE Append(currentItems, item)

\* savePortfolioToStorage: AsyncStorage.setItem('portfolio', JSON.stringify(items)).
savePortfolioToStorage(items, owner) ==
  StorageCall("set", JSONstringify(items), owner)

\* loadPortfolioFromStorageSaga: AsyncStorage.getItem('portfolio').
loadCall == StorageCall("get", <<>>, "load")

\* Dashboard.handleAddToPortfolio for a listed coin and the text of its
\* quantity field.  A quantity that is not > 0 is dropped without a dispatch.
\* Otherwise addToPortfolioRequest is dispatched: watchAddToPortfolio cancels
\* the previous worker and addToPortfolioSaga runs up to its store write.
handleAddToPortfolio(coin, text) ==
  LET qty == parseFloat(IF text = "" THEN "1" ELSE text)
      requested == addToPortfolioRequest(portfolio)
      item == newPortfolioItem(coin, qty)
      currentItems == portfolio.items.list
      updatedItems == withItem(currentItems, findIndex(currentItems, coin.id), item)
  IN
  /\ \E i \in 1..Len(crypto.coins) : crypto.coins[i] = coin
  /\ IF ~JsPositive(qty)
       THEN /\ ev' = [op |-> "addIgnored", coin |-> coin, qty |-> qty]
            /\ UNCHANGED <<portfolio, portQ, addTask>>
     ELSE IF portfolio.items.undef
       THEN /\ portfolio' = portfolioFailure(requested, ErrTypeError)
            /\ portQ' = Cancel(portQ, "add")
            /\ addTask' = idleTask
            /\ ev' = [op |-> "addThrew", coin |-> coin, qty |-> qty,
                      task |-> [idleTask EXCEPT !.item = item]]
       ELSE /\ Len(portQ) < MaxPortQueue
            /\ portfolio' = requested
            /\ portQ' = Append(Cancel(portQ, "add"), savePortfolioToStorage(updatedItems, "add"))
            /\ addTask' = [pc |-> "write", item |-> item, delta |-> 0, before |-> 0]
            /\ ev' = [op |-> "addRequest", coin |-> coin, qty |-> qty,
                      task |-> addTask']
  /\ ops < MaxOps
  /\ ops' = ops + 1
  /\ UNCHANGED <<crypto, portStore, fetchTask, polling, updateTask>>
  /\ UNCHANGED authVars

\* Portfolio.handleUpdateQuantity for a rendered row and the text of its
\* quantity field.  The text is the amount to add: it must parse to a number
\* > 0, otherwise nothing is dispatched.  updatePortfolioItemSaga then takes
\* the price from crypto.coins and runs up to its store write.
handleUpdateQuantity(coinId, text) ==
  LET newQty == parseFloat(IF text = "" THEN "0" ELSE text)
      currentItems == portfolio.items.list
      itemIndex == findIndex(currentItems, coinId)
      currentItem == currentItems[itemIndex]
      totalQuantity == JsAdd(currentItem.quantity, newQty)
      requested == updatePortfolioItemRequest(portfolio)
      coinIndex == CHOOSE i \in 0..Len(crypto.coins) :
                     IF \E k \in 1..Len(crypto.coins) : crypto.coins[k].id = coinId
                       THEN /\ i > 0 /\ crypto.coins[i].id = coinId
                            /\ \A j \in 1..(i - 1) : crypto.coins[j].id # coinId
                       ELSE i = 0
      coin == crypto.coins[coinIndex]
      updatedItem == [currentItem EXCEPT !.quantity = totalQuantity,
                                         !.currentPrice = coin.current_price,
                                         !.value = JsMul(coin.current_price, totalQuantity)]
      updatedItems == [currentItems EXCEPT ![itemIndex] = updatedItem]
      unserved == [idleTask EXCEPT !.item = currentItem, !.delta = newQty,
                                   !.before = currentItem.quantity]
  IN
  /\ ~portfolio.items.undef
  /\ itemIndex > 0
  /\ IF ~JsPositive(newQty)
       THEN /\ ev' = [op |-> "updateIgnored", task |-> unserved]
            /\ UNCHANGED <<portfolio, portQ, updateTask>>
     ELSE IF coinIndex = 0
       THEN /\ portfolio' = portfolioFailure(requested, ErrCoinNotFound)
            /\ portQ' = Cancel(portQ, "update")
            /\ updateTask' = idleTask
            /\ ev' = [op |-> "updateThrew", task |-> unserved]
       ELSE /\ Len(portQ) < MaxPortQueue
            /\ ToNumber(totalQuantity) \in 1..MaxQty \/ totalQuantity = Infinity
            /\ portfolio' = requested
            /\ portQ' = Append(Cancel(portQ, "update"),
                               savePortfolioToStorage(updatedItems, "update"))
            /\ updateTask' = [pc |-> "write", item |-> updatedItem, delta |-> newQty,
                              before |-> currentItem.quantity]
            /\ ev' = [op |-> "updateRequest", task |-> updateTask']
  /\ ops < MaxOps
  /\ ops' = ops + 1
  /\ UNCHANGED <<crypto, portStore, fetchTask, polling, addTask>>
  /\ UNCHANGED authVars

\* Portfolio.handleRemove, confirmed: the removeFromPortfolio reducer runs,
\* then removeFromPortfolioSaga filters the (already reduced) list again and
\* saves it.  The confirmation is given in an alert opened from the coin's
\* row: by then the list may have changed and hold the coin no longer.
handleRemove(coinId) ==
  LET removed == removeFromPortfolio(portfolio, coinId)
      updatedItems == filterOut(removed.items.list, coinId)
  IN
  /\ ~portfolio.items.undef
  /\ Len(portQ) < MaxPortQueue
  /\ portfolio' = removed
  /\ portQ' = Append(Cancel(portQ, "remove"), savePortfolioToStorage(updatedItems, "remove"))
  /\ ev' = [op |-> "remove", coinId |-> coinId,
            index |-> findIndex(portfolio.items.list, coinId)]
  /\ ops < MaxOps
  /\ ops' = ops + 1
  /\ UNCHANGED <<crypto, portStore, fetchTask, polling, addTask, updateTask>>
  /\ UNCHANGED authVars

\* The worker the settled call resumes puts its outcome.  A reducer reading
\* an undefined items throws into the worker's catch.
portfolioAfterCall(c, ok) ==
  IF ~c.live THEN portfolio
  ELSE IF c.owner = "add"
    THEN IF ok /\ ~portfolio.items.undef
           THEN addToPortfolioSuccess(portfolio, addTask.item)
           ELSE portfolioFailure(portfolio, IF ok THEN ErrTypeError ELSE ErrSave)
  ELSE IF c.owner = "update"
    THEN IF ok /\ ~portfolio.items.undef
           THEN updatePortfolioItemSuccess(portfolio, updateTask.item)
           ELSE portfolioFailure(portfolio, IF ok THEN ErrTypeError ELSE ErrSave)
  ELSE IF c.owner = "load"
    THEN IF ok /\ portStore.present /\ portStore.text # Unparsable
           THEN loadPortfolioFromStorage(portfolio, Arr(JSONparse(portStore.text)))
           ELSE loadPortfolioFromStorage(portfolio, Arr(<<>>))
  ELSE portfolio

\* What AsyncStorage holds under "portfolio" once the call has been served.
portStoreAfterCall(c, ok) ==
  IF ok /\ c.kind = "set" THEN [present |-> TRUE, text |-> c.val] ELSE portStore

\* loadPortfolioFromStorageSaga puts the action type its own watcher takes:
\* the put forks the next loadPortfolioFromStorageSaga, which reads again.
portQAfterCall(c) ==
  IF c.live /\ c.owner = "load" THEN Append(Tail(portQ), loadCall) ELSE Tail(portQ)

portfolioEvent(c, ok) ==
  [op |-> IF ~c.live THEN "dropped"
          ELSE IF c.owner = "add"
            THEN (IF ok /\ ~portfolio.items.undef THEN "addSuccess" ELSE "addFailure")
          ELSE IF c.owner = "update"
            THEN (IF ok /\ ~portfolio.items.undef THEN "updateSuccess" ELSE "updateFailure")
          ELSE IF c.owner = "load" THEN "loaded"
          ELSE "removeSaved",
   call |-> c, ok |-> ok,
   task |-> IF c.owner = "add" THEN addTask ELSE updateTask]

portfolioSettle(ok) ==
  LET c == Head(portQ) IN
    /\ portfolio' = portfolioAfterCall(c, ok)
    /\ portStore' = portStoreAfterCall(c, ok)
    /\ portQ' = portQAfterCall(c)
    /\ addTask' = IF c.live /\ c.owner = "add" THEN idleTask ELSE addTask
    /\ updateTask' = IF c.live /\ c.owner = "update" THEN idleTask ELSE updateTask
    /\ ev' = portfolioEvent(c, ok)
    /\ UNCHANGED <<crypto, fetchTask, polling, ops>>
    /\ UNCHANGED authVars

\* AsyncStorage serves the oldest pending call on "portfolio".
PortfolioStorageResolve ==
  /\ portQ # <<>>
  /\ portfolioSettle(TRUE)

\* AsyncStorage rejects the oldest pending call on "portfolio".
PortfolioStorageReject ==
  /\ portQ # <<>>
  /\ portfolioSettle(FALSE)

\* AppContent's mount effect dispatches { type: 'portfolio/loadPortfolioFromStorage' }
\* without a payload: the reducer of that type sets items to undefined, and
\* watchLoadPortfolioFromStorage forks the load worker.
mountedPortfolio == loadPortfolioFromStorage(portfolioInitialState, Undefined)

\* The app is killed and started again (see AuthRestart).
portfolioRestarted ==
  /\ ops < MaxOps
  /\ ops' = ops + 1
  /\ crypto' = cryptoInitialState
  /\ portfolio' = mountedPortfolio
  /\ portQ' = <<loadCall>>
  /\ fetchTask' = {}
  /\ polling' = <<>>
  /\ addTask' = idleTask
  /\ updateTask' = idleTask
  /\ UNCHANGED portStore

PortfolioRestart ==
  /\ portfolioRestarted
  /\ ev' = [op |-> "restart"]
  /\ UNCHANGED authVars

\* What AsyncStorage may hold under "portfolio" when the app starts: nothing
\* on a first start, the list an earlier run of the app saved, or a damaged
\* text.
InitialStores ==
  {[present |-> FALSE, text |-> <<>>],
   [present |-> TRUE,
    text |-> JSONstringify(<<newPortfolioItem(Coin("btc", 1), 2)>>)],
   [present |-> TRUE, text |-> Unparsable]}

PortfolioInit ==
  /\ crypto = cryptoInitialState
  /\ portfolio = mountedPortfolio
  /\ portStore \in InitialStores
  /\ portQ = <<loadCall>>
  /\ fetchTask = {}
  /\ polling = <<>>
  /\ addTask = idleTask
  /\ updateTask = idleTask
  /\ ops = 0

PortfolioNext ==
  \/ DashboardMount
  \/ onRefresh
  \/ fetchCryptoDataSagaResolved
  \/ fetchCryptoDataSagaRejected
  \/ fetchCryptoDataSagaCancelled
  \/ \E coin \in {Coin(id, p) : id \in CoinIds, p \in Prices}, text \in QtyTexts :
       handleAddToPortfolio(coin, text)
  \/ \E coinId \in CoinIds, text \in QtyTexts : handleUpdateQuantity(coinId, text)
  \/ \E coinId \in CoinIds : handleRemove(coinId)
  \/ PortfolioStorageResolve
  \/ PortfolioStorageReject
  \/ PortfolioRestart

vars == <<auth, authStore, authQ, loginTask, crypto, portfolio, portStore, portQ,
          fetchTask, polling, addTask, updateTask, ops, ev>>

Init ==
  /\ AuthInit
  /\ PortfolioInit
  /\ ev = [op |-> "init"]

\* The whole app is killed and started again.
Restart ==
  /\ authRestarted
  /\ portfolioRestarted
  /\ ev' = [op |-> "restart"]

Next ==
  \/ \E username \in Strings, password \in Strings : handleSubmit(username, password)
  \/ loginSagaAuthenticated
  \/ handleLogout
  \/ AuthStorageResolve
  \/ AuthStorageReject
  \/ DashboardMount
  \/ onRefresh
  \/ dispatchStopRefreshPolling
  \/ delay60000
  \/ refreshPollingSaga
  \/ fetchCryptoDataSagaResolved
  \/ fetchCryptoDataSagaRejected
  \/ fetchCryptoDataSagaCancelled
  \/ \E coin \in {Coin(id, p) : id \in CoinIds, p \in Prices}, text \in QtyTexts :
       handleAddToPortfolio(coin, text)
  \/ \E coinId \in CoinIds, text \in QtyTexts : handleUpdateQuantity(coinId, text)
  \/ \E coinId \in CoinIds : handleRemove(coinId)
  \/ PortfolioStorageResolve
  \/ PortfolioStorageReject
  \/ Restart

Spec == Init /\ [][Next]_vars

\* The auth subsystem alone: it shares no state with the rest.
AuthSpec == Init /\ [][AuthNext]_vars

\* The portfolio subsystem with the refreshes the user triggers; the polling
\* loop's requests are the same dispatch and run in PollingSpec.
PortfolioSpec == Init /\ [][PortfolioNext]_vars

\* The Dashboard of a first run showing a fetched list: the mount effect has
\* run, the response has arrived and the first load has found no portfolio.
DashboardListed ==
  /\ crypto = fetchCryptoDataSuccess(fetchCryptoDataRequest(cryptoInitialState),
                                     <<Coin("btc", 1), Coin("eth", 1)>>, 1)
  /\ portfolio = loadPortfolioFromStorage(mountedPortfolio, Arr(<<>>))
  /\ portStore = [present |-> FALSE, text |-> <<>>]
  /\ portQ = <<loadCall>>
  /\ fetchTask = {}
  /\ polling = watchStartRefreshPolling(<<>>)
  /\ addTask = idleTask
  /\ updateTask = idleTask

\* Adds from that Dashboard, with the event budget unspent.
AddInit ==
  /\ AuthInit
  /\ DashboardListed
  /\ ops = 0
  /\ ev = [op |-> "init"]

AddNext ==
  \/ \E coin \in {Coin(id, p) : id \in CoinIds, p \in Prices}, text \in QtyTexts :
       handleAddToPortfolio(coin, text)
  \/ PortfolioStorageResolve
  \/ PortfolioStorageReject

\* AsyncStorage settles every call it was given: the promise of the oldest
\* pending call on "portfolio" resolves or rejects.
AddSpec ==
  /\ AddInit
  /\ [][AddNext]_vars
  /\ WF_vars(PortfolioStorageResolve \/ PortfolioStorageReject)

\* Price refresh within one run of the app: the Dashboard's requests, the
\* polling loop, the responses and the portfolio load the responses read.
PollingNext ==
  \/ DashboardMount
  \/ onRefresh
  \/ dispatchStopRefreshPolling
  \/ delay60000
  \/ refreshPollingSaga
  \/ fetchCryptoDataSagaResolved
  \/ fetchCryptoDataSagaRejected
  \/ fetchCryptoDataSagaCancelled
  \/ PortfolioStorageResolve
  \/ PortfolioStorageReject

\* Time passes, so a running delay ends; the saga middleware resumes a loop
\* whose delay has ended.
PollingSpec ==
  /\ Init
  /\ [][PollingNext]_vars
  /\ WF_vars(delay60000)
  /\ WF_vars(refreshPollingSaga)

\* ------------------------------------------------------------------ claims
\* The pair the specification names, written out.
IsAdminPair(task) == task.username = "admin" /\ task.password = "admin123"

LoginEnded == ev.op \in {"loginSuccess", "loginFailure"}

\* C1: every login that ends succeeds (session authenticated, token not null)
\* if and only if the pair is exactly admin/admin123; every other pair ends
\* with the invalid-credentials error and an unauthenticated session.
C1_LoginSucceedsIffAdminPair ==
  LoginEnded =>
    IF IsAdminPair(ev.task)
      THEN ev.op = "loginSuccess" /\ auth.isAuthenticated /\ auth.token # Null
      ELSE /\ ev.op = "loginFailure" /\ auth.error = ErrInvalid
           /\ ~auth.isAuthenticated /\ auth.token = Null

\* C2: a login that ends has called AsyncStorage exactly once, setItem of
\* "authToken" with the issued token, when the pair matches (and the store
\* holds that token once the call is served); when the pair does not match it
\* has made no AsyncStorage call and its steps leave the store and the pending
\* calls as they were.
C2_LoginStoreWrites ==
  [][LoginEnded' =>
       LET task == ev'.task IN
         IF IsAdminPair(task)
           THEN /\ task.token # Null
                /\ task.calls = <<[kind |-> "set", key |-> "authToken", val |-> task.token]>>
                /\ ev'.op = "loginSuccess" => authStore' = task.token
                /\ ev'.op = "loginFailure" => authStore' = authStore
           ELSE /\ task.calls = <<>>
                /\ authStore' = authStore
                /\ authQ' = authQ]_vars

\* A mismatched login has just failed while the store still holds the token an
\* earlier matching login wrote.
C2_Witness ==
  /\ ev.op = "loginFailure" /\ ~IsAdminPair(ev.task)
  /\ authStore # Null

\* C3: when checkAuthSaga ends, the session is authenticated with exactly the
\* persisted token if "authToken" is present and the read succeeded, and
\* unauthenticated with a null token if the key is absent or the read failed;
\* auth.error and the store are left as they were.
C3_RestoreSession ==
  [][ev'.op = "setAuthFromStorage" =>
       /\ IF ev'.ok /\ authStore # Null
            THEN auth'.isAuthenticated /\ auth'.token = authStore
            ELSE ~auth'.isAuthenticated /\ auth'.token = Null
       /\ auth'.error = auth.error
       /\ authStore' = authStore]_vars

\* A restart found the persisted token: the session was restored from storage.
C3_Witness ==
  /\ ev.op = "setAuthFromStorage" /\ ev.ok
  /\ auth.isAuthenticated /\ auth.token = authStore /\ authStore # Null

\* C4: the logout dispatch clears the in-memory session and sets no error and
\* issues removeItem("authToken"); once that call is served the key is absent,
\* and a rejected call changes nothing.  A logout in a logged-out state leaves
\* the session and an absent key as they were, and logout is idempotent on
\* the auth state.
C4_Logout ==
  [][/\ ev'.op = "logout" =>
          /\ ~auth'.isAuthenticated /\ auth'.token = Null /\ auth'.error = NoError
          /\ logout(auth') = auth'
          /\ authQ' # <<>> /\ authQ'[Len(authQ')] = StorageCall("remove", Null, "logout")
          /\ authStore' = authStore
          /\ (~auth.isAuthenticated /\ auth.token = Null) =>
               (auth'.isAuthenticated = auth.isAuthenticated /\ auth'.token = auth.token)
     /\ (ev'.op \in {"logoutDone", "dropped"} /\ ev'.call.kind = "remove") =>
          /\ auth' = auth
          /\ authStore' = IF ev'.ok THEN Null ELSE authStore]_vars

\* A second logout, dispatched in the logged-out state with the key already
\* deleted, has been served.
C4_Witness ==
  /\ ev.op = "logoutDone" /\ ev.ok
  /\ ~auth.isAuthenticated /\ auth.token = Null /\ authStore = Null
  /\ authQ = <<>>

\* A JavaScript number of the model that is neither NaN nor an infinity.
Finite(x) == ToNumber(x) < Infinity

\* C5: a refresh that fails (non-2xx response or transport failure) leaves the
\* coin list, lastUpdated and the portfolio (every item's quantity,
\* currentPrice and value) as they were; of the crypto state only loading
\* (now false) and error (the failure's message) change.
C5_FailedRefreshKeepsData ==
  [][ev'.op = "fetchFailure" =>
       /\ crypto'.coins = crypto.coins
       /\ crypto'.lastUpdated = crypto.lastUpdated
       /\ portfolio'.items = portfolio.items
       /\ crypto'.loading = FALSE
       /\ crypto'.error = ErrFetch]_vars

\* A refresh has just failed while coins were listed and the portfolio held
\* an item: the list, its timestamp and the item are still there.
C5_Witness ==
  /\ ev.op = "fetchFailure" /\ crypto.error = ErrFetch
  /\ crypto.coins # <<>> /\ crypto.lastUpdated # Null
  /\ ~portfolio.items.undef /\ portfolio.items.list # <<>>

\* C6: a successful refresh changes exactly the portfolio items whose coinId
\* is in the new coin list: each gets that coin's new price as currentPrice
\* and quantity times that price as value, its quantity kept; every other
\* item is as it was, and no item is added, removed or moved.
C6_RefreshUpdatesListedItems ==
  [][ev'.op = "fetchSuccess" =>
       LET coins == ev'.coins
           old == portfolio.items.list
           new == portfolio'.items.list
       IN /\ crypto'.coins = coins
          /\ Len(new) = Len(old)
          /\ \A i \in 1..Len(old) :
               IF \E k \in 1..Len(coins) : coins[k].id = old[i].coinId
                 THEN \E k \in 1..Len(coins) :
                        /\ coins[k].id = old[i].coinId
                        /\ new[i].coinId = old[i].coinId
                        /\ new[i].quantity = old[i].quantity
                        /\ new[i].currentPrice = coins[k].current_price
                        /\ new[i].value =
                             IF Finite(old[i].quantity)
                               THEN ToNumber(old[i].quantity) * coins[k].current_price
                               ELSE old[i].quantity
                 ELSE new[i] = old[i]]_vars

\* A successful refresh has just repriced an item: its price is the new
\* list's and no longer the one it was saved with.
C6_Witness ==
  /\ ev.op = "fetchSuccess" /\ ~portfolio.items.undef /\ portStore.present
  /\ \E i \in 1..Len(portfolio.items.list), k \in 1..Len(ev.coins),
        j \in 1..Len(portStore.text) :
       LET item == portfolio.items.list[i] IN
         /\ ev.coins[k].id = item.coinId
         /\ item.currentPrice = ev.coins[k].current_price
         /\ item.value = item.quantity * item.currentPrice
         /\ portStore.text[j].coinId = item.coinId
         /\ portStore.text[j].quantity = item.quantity
         /\ portStore.text[j].currentPrice # item.currentPrice

\* The effect C7 describes, of adding item to the list old, on the list new.
AppendedOrOverwritten(old, new, item) ==
  LET index == findIndex(old, item.coinId) IN
    /\ item.value = JsMul(item.currentPrice, item.quantity)
    /\ IF index = 0
         THEN /\ new = Append(old, item)
              /\ totalValue(new) = JsAdd(totalValue(old), item.value)
         ELSE /\ new = [old EXCEPT ![index] = item]
              /\ (Finite(totalValue(old)) /\ Finite(item.value)) =>
                   totalValue(new) =
                     totalValue(old) - ToNumber(old[index].value) + item.value

\* C7: an add with quantity q > 0 that ends, dispatched and ended while the
\* portfolio is a list, has appended the item when the coin was not in the
\* portfolio (total value raised by price times q) and has overwritten the
\* coin's item otherwise (quantity replaced, not summed; total value changed
\* by the new contribution minus the old one).
C7_AddAppendsOrOverwrites ==
  [][(ev'.op \in {"addSuccess", "addFailure"} /\ ~portfolio.items.undef) =>
       /\ JsPositive(ev'.task.item.quantity)
       /\ AppendedOrOverwritten(portfolio.items.list, portfolio'.items.list,
                                ev'.task.item)]_vars

\* C7, for the adds whose store write is served: the item is appended or
\* overwritten as claimed.
C7_ServedAddAppendsOrOverwrites ==
  [][ev'.op = "addSuccess" =>
       /\ JsPositive(ev'.task.item.quantity)
       /\ AppendedOrOverwritten(portfolio.items.list, portfolio'.items.list,
                                ev'.task.item)]_vars

\* The Dashboard's add handler has just run.
AddHandled == ev.op \in {"addIgnored", "addRequest", "addThrew"}

UpdateEnded == ev.op \in {"updateIgnored", "updateThrew", "updateSuccess", "updateFailure"}

\* The quantity the portfolio holds for coinId; Null when it holds none.
quantityOf(list, coinId) ==
  IF findIndex(list, coinId) = 0 THEN Null
  ELSE list[findIndex(list, coinId)].quantity

\* C9: an update-quantity operation with delta d on an existing item of
\* (finite) quantity q0 that has ended leaves the item with quantity q0 + d
\* when q0 + d > 0, and with quantity q0 when q0 + d <= 0.  Stated for the
\* updates whose price lookup (C10) does not throw.
C9_UpdateAddsDelta ==
  [][(/\ UpdateEnded' /\ ev'.op # "updateThrew"
      /\ Finite(ev'.task.before) /\ Finite(ev'.task.delta)) =>
       LET q0 == ToNumber(ev'.task.before)
           d == ev'.task.delta
       IN quantityOf(portfolio'.items.list, ev'.task.item.coinId) =
            IF q0 + d > 0 THEN q0 + d ELSE q0]_vars

\* C9, for the updates the code serves: a positive delta, the coin in the
\* coin list, the store write served.
C9_ServedUpdateAddsDelta ==
  [][(ev'.op = "updateSuccess" /\ Finite(ev'.task.before) /\ Finite(ev'.task.delta)
        /\ findIndex(portfolio.items.list, ev'.task.item.coinId) > 0) =>
       quantityOf(portfolio'.items.list, ev'.task.item.coinId) =
         ToNumber(ev'.task.before) + ev'.task.delta]_vars

\* C10: an update-quantity operation on an existing item whose resulting
\* quantity is positive is not rejected: it ends with the item carrying the
\* price of its coin in the coin list at the time of the call and quantity
\* times that price as value, the list persisted, and no error.  Stated for
\* the updates that add a finite amount > 0 and whose store write, if one is
\* issued, is served.
C10_UpdateSucceedsForExistingItem ==
  [][(/\ UpdateEnded' /\ Finite(ev'.task.before)
      /\ Finite(ev'.task.delta) /\ ev'.task.delta > 0
      /\ ev'.op \in {"updateSuccess", "updateFailure"} => ev'.ok
      /\ findIndex(portfolio.items.list, ev'.task.item.coinId) > 0) =>
       LET new == portfolio'.items.list
           index == findIndex(new, ev'.task.item.coinId)
           item == new[index]
       IN /\ ev'.op = "updateSuccess"
          /\ portfolio'.error = NoError
          /\ index > 0
          /\ item.currentPrice = ev'.task.item.currentPrice
          /\ item.value = item.quantity * item.currentPrice
          /\ portStore'.present
          /\ \E j \in 1..Len(portStore'.text) : portStore'.text[j] = item]_vars

\* C11: a remove of coinId takes exactly the items of that coinId out of the
\* in-memory list, every other item staying as it was and where it was, sets
\* no error and issues the save of the resulting list; when the coin is not in
\* the list the in-memory portfolio is as before.  A second remove of the
\* same coinId would change nothing in memory and save the same list.  When
\* the save is served the store holds that list; served or rejected, it
\* changes nothing in memory and sets no error.
C11_Remove ==
  [][/\ ev'.op = "remove" =>
          LET coinId == ev'.coinId
              old == portfolio.items.list
              new == portfolio'.items.list
              kept(item) == item.coinId # coinId
          IN /\ new = SelectSeq(old, kept)
             /\ portfolio'.error = portfolio.error
             /\ portfolio'.loading = portfolio.loading
             /\ ev'.index = 0 => portfolio' = portfolio
             /\ removeFromPortfolio(portfolio', coinId) = portfolio'
             /\ portQ' # <<>>
             /\ portQ'[Len(portQ')] = savePortfolioToStorage(new, "remove")
             /\ portStore' = portStore
     /\ (ev'.op \in {"removeSaved", "dropped"} /\ ev'.call.owner = "remove") =>
          /\ portfolio' = portfolio
          /\ portStore' = IF ev'.ok THEN [present |-> TRUE, text |-> ev'.call.val]
                          ELSE portStore]_vars

\* A remove has just been dispatched for a coin that an earlier remove, whose
\* save emptied the store, had already taken out.
C11_Witness ==
  /\ ev.op = "remove" /\ ev.index = 0
  /\ portStore.present /\ portStore.text = <<>>
  /\ ~portfolio.items.undef /\ portfolio.items.list = <<>>

\* C12: in every reachable state every portfolio item has
\* value = quantity * currentPrice (as JavaScript computes the product).
C12_ValueIsQuantityTimesPrice ==
  \A i \in 1..Len(portfolio.items.list) :
    LET item == portfolio.items.list[i] IN
      item.value = JsMul(item.quantity, item.currentPrice)

\* C12, for the items whose quantity is a finite number: the value is the
\* product.
C12_FiniteValueIsQuantityTimesPrice ==
  \A i \in 1..Len(portfolio.items.list) :
    LET item == portfolio.items.list[i] IN
      item.quantity \notin {Infinity, NaN, JsonNull} =>
        item.value = item.quantity * item.currentPrice

\* No two items of the list have the same coinId.
UniqueCoinIds(list) ==
  \A i, j \in 1..Len(list) : list[i].coinId = list[j].coinId => i = j

\* C13: in every reachable state the in-memory portfolio holds at most one
\* item per coinId, and so does the list persisted under "portfolio".
C13_OneItemPerCoin ==
  /\ UniqueCoinIds(portfolio.items.list)
  /\ UniqueCoinIds(portStore.text)

\* An add has just succeeded and the portfolio holds two coins, one item each.
C13_Witness ==
  /\ ev.op = "addSuccess"
  /\ Len(portfolio.items.list) = 2
  /\ portfolio.items.list[1].coinId # portfolio.items.list[2].coinId

\* The save of an add, update-quantity or remove operation has just been
\* served to its live worker.
OperationSaved ==
  /\ ev.op \in {"addSuccess", "updateSuccess", "removeSaved"}
  /\ ev.ok

\* Nothing overlapped the operation that completes in this step: no other
\* add, update-quantity or remove is waiting for its save, and the in-memory
\* list is still the one the operation saw when it was dispatched (the list
\* it saved is the list in memory, with the operation's item put in).
NotOverlapped ==
  LET list == portfolio.items.list
      call == Head(portQ)
      task == IF call.owner = "add" THEN addTask ELSE updateTask
      index == findIndex(list, task.item.coinId)
      saved == IF call.owner = "remove" THEN list
               ELSE withItem(list, index, task.item)
  IN /\ ~portfolio.items.undef
     /\ call.owner = "update" => index > 0
     /\ \A k \in 2..Len(portQ) : portQ[k].owner = "load"
     /\ call.val = JSONstringify(saved)

\* The list persisted under "portfolio", as a load would install it, is the
\* in-memory list.
PersistedEqualsMemory ==
  /\ portStore.present
  /\ Arr(JSONparse(portStore.text)) = portfolio.items

\* C14: when an add, update-quantity or remove operation completes
\* successfully with no other operation overlapping it, the list persisted
\* under "portfolio" equals the in-memory list (same items, order, quantity,
\* currentPrice and value).
C14_PersistedEqualsMemory ==
  [][(OperationSaved' /\ NotOverlapped) => PersistedEqualsMemory']_vars

\* C14, for lists whose numbers are all finite.
C14_FinitePersistedEqualsMemory ==
  [][(/\ OperationSaved' /\ NotOverlapped
      /\ \A i \in 1..Len(portfolio'.items.list) :
           portfolio'.items.list[i].quantity \notin {Infinity, NaN}) =>
       PersistedEqualsMemory']_vars

\* The list a fresh instance (the app started again on the same store) has
\* in memory once its load is served.
LoadedInFreshInstance ==
  loadPortfolioFromStorage(mountedPortfolio,
                           IF portStore.present THEN Arr(JSONparse(portStore.text))
                           ELSE Arr(<<>>)).items

\* An add has just succeeded and the store holds what JSON.stringify makes of
\* the in-memory list: the list has been persisted as it is in memory.
AddPersisted ==
  /\ ev.op = "addSuccess" /\ ev.ok
  /\ portStore.present
  /\ portStore.text = JSONstringify(portfolio.items.list)

\* C15: round trip.  After a successful add whose list has been persisted,
\* loading the persisted value into a fresh instance yields a list equal to
\* the in-memory list: same coinId, quantity, currentPrice and value for
\* every item.
C15_RoundTrip ==
  AddPersisted => LoadedInFreshInstance = portfolio.items

\* C15, for lists whose numbers are all finite.
C15_FiniteRoundTrip ==
  (/\ AddPersisted
   /\ \A i \in 1..Len(portfolio.items.list) :
        portfolio.items.list[i].quantity \notin {Infinity, NaN}) =>
    LoadedInFreshInstance = portfolio.items

\* C16: when the store write of an add fails, the in-memory change is not
\* rolled back: the added or overwritten item is in the in-memory portfolio
\* when the operation ends.
C16_FailedSaveKeepsItem ==
  [][(ev'.op = "addFailure" /\ ~ev'.ok) =>
       LET list == portfolio'.items.list
           index == findIndex(list, ev'.task.item.coinId)
       IN index > 0 /\ list[index] = ev'.task.item]_vars

\* An AsyncStorage call on "authToken" has just been rejected to the worker
\* awaiting it.
AuthStorageFailed ==
  /\ "ok" \in DOMAIN ev
  /\ ~ev.ok /\ ev.call.live

\* C17: a storage failure during login, session restore or logout sets no
\* user-visible error and does not prevent the in-memory part of the
\* operation: the login still authenticates the session with the issued
\* token, the restore ends unauthenticated, the logout stays logged out.
C17_StorageFailureAbsorbed ==
  [][AuthStorageFailed' =>
       /\ auth'.error = auth.error
       /\ ev'.call.owner = "login" =>
            auth'.isAuthenticated /\ auth'.token = ev'.task.token
       /\ ev'.call.owner = "checkAuth" =>
            ~auth'.isAuthenticated /\ auth'.token = Null
       /\ ev'.call.owner = "logout" => auth' = auth]_vars

\* C17, for the session restore and the logout: their storage failures are
\* absorbed.
C17_RestoreAndLogoutFailureAbsorbed ==
  [][(AuthStorageFailed' /\ ev'.call.owner # "login") =>
       /\ auth'.error = auth.error
       /\ ev'.call.owner = "checkAuth" =>
            ~auth'.isAuthenticated /\ auth'.token = Null
       /\ ev'.call.owner = "logout" => auth' = auth]_vars

\* C18: a load from storage installs the empty list when the "portfolio" key
\* is absent, when its value cannot be parsed and when the read fails;
\* whatever the outcome, the load sets no error and leaves the store as it
\* is.
C18_LoadDegradesToEmpty ==
  [][ev'.op = "loaded" =>
       /\ (~portStore.present \/ portStore.text = Unparsable \/ ~ev'.ok) =>
            portfolio'.items = Arr(<<>>)
       /\ portfolio'.error = portfolio.error
       /\ portfolio'.loading = portfolio.loading
       /\ portStore' = portStore]_vars

\* A load has just read a text that cannot be parsed: the list is empty and
\* no error shows.
C18_Witness ==
  /\ ev.op = "loaded" /\ ev.ok
  /\ portStore.present /\ portStore.text = Unparsable
  /\ portfolio.items = Arr(<<>>) /\ portfolio.error = NoError

\* The last step was a refresh request put by the polling loop.
PollingRequested == ev.op = "fetchRequest" /\ ev.by = "polling"

\* The last step was a refresh that failed.
RefreshFailed == ev.op \in {"fetchFailure", "fetchThrew"}

\* C19: once a polling loop runs, polling-triggered refresh requests are
\* issued again and again for ever; a refresh that fails sets the error and
\* leaves the loop and its running delay as they are, and a polling request
\* follows it.
C19_PollingNeverStops ==
  /\ [](polling # <<>> => []<>PollingRequested)
  /\ (RefreshFailed /\ polling # <<>>) ~> PollingRequested
  /\ [][RefreshFailed' => crypto'.error # NoError /\ polling' = polling]_vars

\* The polling loop has put a request while the error of a failed refresh
\* was showing.
C19_Witness ==
  /\ PollingRequested
  /\ ev.cleared = ErrFetch
  /\ polling = <<FALSE>>

\* C20: whatever the number of start-polling requests, at most one polling
\* loop runs, and once the loop has put its request no loop is due before
\* another sixty seconds have passed: one period, at most one polling request.
C20_OnePollingLoop ==
  [][/\ Len(polling') <= 1
     /\ PollingRequested' => \A i \in 1..Len(polling') : ~polling'[i]]_vars

\* A Dashboard mount has asked for polling while a loop was running: one
\* loop runs, at the start of its delay.
C20_Witness ==
  /\ ev.op = "fetchRequest" /\ ev.by = "mount"
  /\ ev.loops = 1
  /\ polling = <<FALSE>>

\* C21: a failed login leaves a valid session as it was: a session that was
\* authenticated with a token is authenticated with the same token after the
\* failure, in memory and in the store; the failure only adds the error.
C21_FailedLoginKeepsSession ==
  [][(ev'.op = "loginFailure" /\ auth.isAuthenticated) =>
       /\ auth'.isAuthenticated
       /\ auth'.token = auth.token
       /\ authStore' = authStore]_vars

\* C21, for the store alone: a failed login never changes what the store
\* holds under "authToken".
C21_FailedLoginKeepsStore ==
  [][ev'.op = "loginFailure" => authStore' = authStore]_vars

\* No login, refresh, add or update worker is waiting for its outcome.
NoOperationInFlight ==
  /\ loginTask.pc = "idle"
  /\ \A t \in fetchTask : ~t.live
  /\ addTask.pc = "idle"
  /\ updateTask.pc = "idle"

\* C22: operations are serialized and never cancelled: a login, refresh,
\* add or update request is accepted only once every earlier operation has
\* run to completion and its outcome has been applied.
C22_OperationsSerialized ==
  [][ev'.op \in {"loginRequest", "fetchRequest", "addRequest", "updateRequest"} =>
       NoOperationInFlight]_vars

\* C23: a stop-polling request ends the automatic refresh: once it has been
\* dispatched no polling loop runs, so no polling-triggered request is put
\* until polling is started again.
C23_StopEndsPolling ==
  [][ev'.op = "stopPolling" => polling' = <<>>]_vars

\* A read of "portfolio" issued by a load worker is awaited.
LoadInFlight ==
  \E i \in 1..Len(portQ) : portQ[i].owner = "load" /\ portQ[i].live

\* C24: the load worker finishes and does not re-trigger itself: once a load
\* has installed its list no load is in flight, so the one trigger at app
\* start causes a bounded number of reads and replacements.
C24_LoadDoesNotRetrigger ==
  [][ev'.op = "loaded" => ~LoadInFlight']_vars

\* C25: from app start on portfolio.items is a list, possibly empty, also
\* between the load trigger and the completion of the read.
C25_ItemsIsAList == ~portfolio.items.undef

\* C25, once a load has completed: items stays a list until the app is
\* started again.
C25_ItemsIsAListOnceLoaded ==
  [][~portfolio.items.undef /\ ev'.op # "restart" => ~portfolio'.items.undef]_vars

\* No add or update worker is waiting and no save is pending (the reads of
\* the load workers aside).
NoPortfolioOperationInFlight ==
  /\ addTask.pc = "idle"
  /\ updateTask.pc = "idle"
  /\ \A k \in 1..Len(portQ) : portQ[k].owner = "load"

\* The list persisted under "portfolio", as a load installs it.
PersistedList ==
  IF portStore.present /\ portStore.text # Unparsable
    THEN Arr(JSONparse(portStore.text))
    ELSE Arr(<<>>)

\* C26: whenever no portfolio operation is in flight (and the list has been
\* loaded), the persisted list equals the in-memory list, whatever the
\* interleaving of add, update, remove, load and price-refresh events.
C26_PersistedEqualsMemoryAtRest ==
  (NoPortfolioOperationInFlight /\ ~portfolio.items.undef) =>
     PersistedList = portfolio.items

\* No login worker is running and no call on "authToken" is awaited.
NoAuthOperationInFlight ==
  /\ loginTask.pc = "idle"
  /\ authQ = <<>>

\* C27: whenever no login, logout or session restore is in flight, the
\* session is authenticated exactly when the store holds an "authToken",
\* and auth.token is then the stored value.
C27_SessionMatchesStore ==
  NoAuthOperationInFlight =>
    /\ auth.isAuthenticated <=> authStore # Null
    /\ auth.isAuthenticated => auth.token = authStore

\* A login worker is running and a logout came after its request: the
\* request set auth.loading, and while the worker runs only a logout clears
\* it.
LoggedOutSinceRequest ==
  /\ loginTask.pc # "idle"
  /\ ~auth.loading

\* C28: after a logout that no new login request follows, the session does
\* not become authenticated again and no "authToken" is written, also when
\* a login was in flight at the moment of the logout.
C28_LogoutIsFinal ==
  [][LoggedOutSinceRequest =>
       /\ auth'.isAuthenticated => auth.isAuthenticated
       /\ authStore' \in {authStore, Null}]_vars

\* The list holds the coin with the quantity.
HoldsIn(items, coinId, qty) ==
  /\ ~items.undef
  /\ \E i \in 1..Len(items.list) :
       /\ items.list[i].coinId = coinId
       /\ items.list[i].quantity = qty

\* The in-memory portfolio holds the coin with the quantity.
Holds(coinId, qty) == HoldsIn(portfolio.items, coinId, qty)

\* C29: no accepted add is lost: every dispatched add request with a
\* quantity > 0 is eventually followed by a state in which the portfolio
\* holds the coin with that quantity or by a portfolio error, also when a
\* second add is dispatched while the first waits for its store write.
C29_AddNeverLost ==
  \A coinId \in CoinIds : \A qty \in {1, 2, Infinity} :
    (ev.op = "addRequest" /\ ev.coin.id = coinId /\ ev.qty = qty)
      ~> (Holds(coinId, qty) \/ portfolio.error # NoError)

\* C29, for an add that no later add overtakes: the step that ends it puts
\* the item in the portfolio or sets the error.
C29_UncancelledAddEnds ==
  [][ev'.op \in {"addSuccess", "addFailure"} =>
       \/ HoldsIn(portfolio'.items, ev'.task.item.coinId, ev'.task.item.quantity)
       \/ portfolio'.error # NoError]_vars

\* C30: a response is applied only when no refresh request, manual or
\* polling-triggered, was dispatched after its own; the response to an
\* overtaken request changes neither the coin list nor the portfolio; and
\* an applied response replaces the coin list and reprices the portfolio in
\* one step.
C30_StaleResponseNeverApplied ==
  [][/\ ev'.op \in {"fetchSuccess", "fetchThrew", "fetchFailure"} =>
          ev'.request.latest
     /\ ev'.op = "fetchStale" =>
          /\ ~ev'.request.latest
          /\ crypto' = crypto
          /\ portfolio' = portfolio
     /\ ev'.op = "fetchSuccess" =>
          /\ crypto'.coins = ev'.coins
          /\ portfolio' = IF Len(portfolio.items.list) > 0
                            THEN updatePortfolioPrices(portfolio, priceMapOf(ev'.coins))
                            ELSE portfolio]_vars

\* The response to an overtaken request has arrived after the response to
\* the newer one was applied: the coin list is the newer one's.
C30_Witness ==
  /\ ev.op = "fetchStale"
  /\ crypto.coins # <<>>
  /\ ~crypto.loading
====
